---- MODULE Spec2Model ----
(***************************************************************************)
(* State-machine model of the news aggregation engine                      *)
(* (src/src/context/NewsContext.jsx: NewsProvider / refreshNews, the       *)
(* settings-change effect and the scheduler effect) and of the proximity   *)
(* scorer (src/src/utils/proximityScorer.js: calculateProximityScore).     *)
(*                                                                         *)
(* Conventions                                                             *)
(*  - floating point scores are scaled by 10 (1.5 is 15, 1.0 is 10);       *)
(*  - an optional field is a sequence of length 0 (absent) or 1 (present); *)
(*  - a JavaScript object whose key order matters is an ordered map: a     *)
(*    sequence of <<key, value>> pairs in insertion order;                 *)
(*  - a JavaScript string is a sequence of one-character strings.          *)
(***************************************************************************)
EXTENDS Integers, Sequences, FiniteSets, TLC

(***************************************************************************)
(* Bounds of the model                                                     *)
(***************************************************************************)
\* total number of refreshNews calls in one behaviour
MaxRefreshes == 2
\* number of writes to the configuration store in one behaviour
MaxSettingsChanges == 1
\* longest title / description handed to calculateProximityScore
MaxTextLen == 2

(***************************************************************************)
(* Generic helpers: optional values, ordered maps, finite maps             *)
(***************************************************************************)
\* (x || 0) for an optional number
OrZero(opt) == IF opt = <<>> THEN 0 ELSE opt[1]

Range(s) == {s[i] : i \in 1..Len(s)}

\* Object.keys(o) of an ordered map
ObjKeys(o) == [i \in 1..Len(o) |-> o[i][1]]

ObjHas(o, k) == \E i \in 1..Len(o) : o[i][1] = k

ObjGet(o, k) == (CHOOSE i \in 1..Len(o) : o[i][1] = k)

\* o[k] = v : an existing key keeps its position, a new key is appended
ObjSet(o, k, v) ==
    IF ObjHas(o, k)
    THEN [i \in 1..Len(o) |-> IF o[i][1] = k THEN <<k, v>> ELSE o[i]]
    ELSE Append(o, <<k, v>>)

\* Object.assign(target, src)
RECURSIVE ObjAssign(_, _)
ObjAssign(target, src) ==
    IF src = <<>> THEN target
    ELSE ObjAssign(ObjSet(target, Head(src)[1], Head(src)[2]), Tail(src))

\* Object.values(o).flat() for an ordered map of lists
RECURSIVE FlatValues(_)
FlatValues(o) ==
    IF o = <<>> THEN <<>> ELSE Head(o)[2] \o FlatValues(Tail(o))

\* { ...prev, ...next } for finite maps read by key
Spread(prev, next) ==
    [k \in (DOMAIN prev) \cup (DOMAIN next) |->
        IF k \in DOMAIN next THEN next[k] ELSE prev[k]]

EmptyMap == [k \in {} |-> <<>>]

(***************************************************************************)
(* Articles and the Source Adapter (fetchSectionNews is imported from      *)
(* ../services/rssAggregator; its outcomes are drawn from the sets below)  *)
(***************************************************************************)
Art(link, section, impact, bscore, isB) ==
    [link |-> link, section |-> section, impactScore |-> impact,
     breakingScore |-> bscore, isBreaking |-> isB]

aW1 == Art("w1", "world", <<70>>, <<20>>, FALSE)
aW2 == Art("w2", "world", <<50>>, <<>>, FALSE)
aB1 == Art("b1", "business", <<50>>, <<10>>, TRUE)
aB2 == Art("b2", "business", <<50>>, <<16>>, FALSE)
aI1 == Art("i1", "india", <<50>>, <<30>>, FALSE)
aU1 == Art("u1", "", <<>>, <<15>>, FALSE)

Articles == {aW1, aW2, aB1, aB2, aI1, aU1}

\* an adapter call resolves with an array, resolves with something that is
\* not an array, or rejects with an Error
Ok(list) == [kind |-> "ok", articles |-> list, message |-> ""]
NotArray == [kind |-> "notarray", articles |-> <<>>, message |-> ""]
Throw(msg) == [kind |-> "throw", articles |-> <<>>, message |-> msg]

\* sources that mix topics, leave fields out and fail
MixedFeeds(key) ==
    CASE key = "world" -> {Ok(<<aW2, aB1, aW1>>), Throw("timeout")}
      [] key = "india" -> {Ok(<<aB2, aU1, aI1>>), Throw("parse")}
      [] OTHER -> {Ok(<<aB1, aU1>>), NotArray}

\* sources that return only articles tagged with the requested section
TaggedFeeds(key) ==
    CASE key = "world" -> {Ok(<<aW2, aW1>>), Ok(<<aW1>>)}
      [] key = "india" -> {Ok(<<aI1>>), Ok(<<>>)}
      [] OTHER -> {Ok(<<aB2, aB1>>), Ok(<<aB1>>)}

\* sources that always answer, with the same single article
SteadyFeeds(key) == {Ok(<<aW1>>)}

\* sources whose articles may all carry another section than the one asked
StrayFeeds(key) ==
    CASE key = "world" -> {Ok(<<aB1, aU1>>), Ok(<<aW1>>)}
      [] key = "india" -> {Ok(<<aW2>>), Ok(<<aI1>>)}
      [] OTHER -> {Ok(<<>>)}

\* what a call fetchSectionNews(key, count, sources) may settle with
fetchSectionNews(kind, key) ==
    CASE kind = "tagged" -> TaggedFeeds(key)
      [] kind = "steady" -> SteadyFeeds(key)
      [] kind = "stray" -> StrayFeeds(key)
      [] OTHER -> MixedFeeds(key)

(***************************************************************************)
(* refreshNews: the pure parts                                             *)
(***************************************************************************)
allSections ==
    <<"world", "india", "chennai", "trichy", "local", "social",
      "entertainment", "business", "technology">>

IsHighPriority(s) == s \in {"world", "india", "chennai", "trichy"}

highPriority(sectionsToFetch) == SelectSeq(sectionsToFetch, IsHighPriority)

IsLowPriority(s) == ~IsHighPriority(s)

lowPriority(sectionsToFetch) == SelectSeq(sectionsToFetch, IsLowPriority)

NonEmptyBatch(b) == Len(b) > 0

\* every section in one batch
BatchesMerged(sectionsToFetch) ==
    IF Len(sectionsToFetch) = 0 THEN <<>> ELSE <<sectionsToFetch>>

\* the two batches without the filter on their length
BatchesUnfiltered(sectionsToFetch) ==
    <<highPriority(sectionsToFetch), lowPriority(sectionsToFetch)>>

\* [highPriority, lowPriority].filter(b => b.length > 0)
Batches(sectionsToFetch) ==
    SelectSeq(<<highPriority(sectionsToFetch), lowPriority(sectionsToFetch)>>,
              NonEmptyBatch)

\* specificSections || allSections   (an empty array is truthy)
SectionsToFetch(arg) == IF arg.isNull THEN allSections ELSE arg.list

\* settings.sections[key]?.enabled
SectionEnabled(cfg, key) ==
    /\ key \in DOMAIN cfg.sections[1]
    /\ cfg.sections[1][key].enabled

\* (settings.sections[key]?.count || 10) + 5
TargetCount(cfg, key) ==
    LET c == IF key \in DOMAIN cfg.sections[1]
             THEN OrZero(cfg.sections[1][key].count) ELSE 0
    IN  (IF c = 0 THEN 10 ELSE c) + 5

\* item.section || 'uncategorized'
Classify(item) == IF item.section = "" THEN "uncategorized" ELSE item.section

\* array.sort((a, b) => (b.impactScore || 0) - (a.impactScore || 0)),
\* a stable sort: an element moves in front of those with a smaller score only
RECURSIVE InsertByImpact(_, _)
InsertByImpact(sorted, item) ==
    IF sorted = <<>> THEN <<item>>
    ELSE IF OrZero(Head(sorted).impactScore) >= OrZero(item.impactScore)
         THEN <<Head(sorted)>> \o InsertByImpact(Tail(sorted), item)
         ELSE <<item>> \o sorted

RECURSIVE SortFrom(_, _)
SortFrom(done, rest) ==
    IF rest = <<>> THEN done
    ELSE SortFrom(InsertByImpact(done, Head(rest)), Tail(rest))

\* the sort left out
SortByImpactSkipped(list) == list

SortByImpact(list) == SortFrom(<<>>, list)

RECURSIVE InsertByBreaking(_, _)
InsertByBreaking(sorted, item) ==
    IF sorted = <<>> THEN <<item>>
    ELSE IF OrZero(Head(sorted).breakingScore) >= OrZero(item.breakingScore)
         THEN <<Head(sorted)>> \o InsertByBreaking(Tail(sorted), item)
         ELSE <<item>> \o sorted

RECURSIVE SortBreakingFrom(_, _)
SortBreakingFrom(done, rest) ==
    IF rest = <<>> THEN done
    ELSE SortBreakingFrom(InsertByBreaking(done, Head(rest)), Tail(rest))

SortByBreaking(list) == SortBreakingFrom(<<>>, list)

\* item.isBreaking || (item.breakingScore && item.breakingScore > 1.5)
IsBreakingItem(item) == item.isBreaking \/ OrZero(item.breakingScore) > 15

\* the slice left out
Slice3Missing(list) == list

\* .slice(0, 3)
Slice3(list) == SubSeq(list, 1, IF Len(list) < 3 THEN Len(list) ELSE 3)

\* allFetched.filter(...).sort(...).slice(0, 3)
Breaking(allFetched) == Slice3(SortByBreaking(SelectSeq(allFetched, IsBreakingItem)))

\* the list the articles of allFetched classified as `section` form, in order
BucketOf(allFetched, section) ==
    SelectSeq(allFetched, LAMBDA item : Classify(item) = section)

\* the buckets as fetched, without the redistribution pass
RedistributeByRequestedKey(allCollectedResults) ==
    [k \in Range(ObjKeys(allCollectedResults)) |->
        SortByImpact(allCollectedResults[ObjGet(allCollectedResults, k)][2])]

\* the pass without the empty bucket for every fetched key
RedistributeClassifiedOnly(allCollectedResults) ==
    LET allFetched == FlatValues(allCollectedResults)
        keys == {Classify(allFetched[i]) : i \in 1..Len(allFetched)}
    IN  [k \in keys |-> SortByImpact(BucketOf(allFetched, k))]

\* the redistribution pass: a bucket for every fetched key and every
\* classified section, each sorted
Redistribute(allCollectedResults) ==
    LET allFetched == FlatValues(allCollectedResults)
        keys == Range(ObjKeys(allCollectedResults))
                  \cup {Classify(allFetched[i]) : i \in 1..Len(allFetched)}
    IN  [k \in keys |-> SortByImpact(BucketOf(allFetched, k))]

(***************************************************************************)
(* The configuration store (getSettings is imported from ../utils/storage) *)
(***************************************************************************)
SectionCfg(enabled, count) == [enabled |-> enabled, count |-> count]

\* world and india switched on, every other section switched off
DefaultSections ==
    [k \in Range(allSections) |->
        CASE k = "world" -> SectionCfg(TRUE, <<5>>)
          [] k = "india" -> SectionCfg(TRUE, <<3>>)
          [] k = "business" -> SectionCfg(FALSE, <<0>>)
          [] OTHER -> SectionCfg(FALSE, <<5>>)]

DefaultSettings ==
    [sections |-> <<DefaultSections>>,
     newsSources |-> <<<<"bbc", TRUE>>>>,
     freshnessLimitHours |-> <<26>>,
     enableCache |-> TRUE,
     uiMode |-> "timeline",
     enableProximityScoring |-> <<>>]

\* the same store with world (count 1) and business (count 0) switched on
WorldBusinessSettings ==
    [DefaultSettings EXCEPT
        !.sections = <<[DefaultSections EXCEPT
                          !["world"] = SectionCfg(TRUE, <<1>>),
                          !["india"] = SectionCfg(FALSE, <<3>>),
                          !["business"] = SectionCfg(TRUE, <<0>>)]>>]

\* a stored object without a `sections` property
NoSectionsSettings == [DefaultSettings EXCEPT !.sections = <<>>]

\* the settings objects the store may hold when the provider is constructed
InitialStores == {DefaultSettings, WorldBusinessSettings, NoSectionsSettings}

\* getSettings(): the stored object, or nothing
getSettings(stored) == {<<stored>>, <<>>}

(***************************************************************************)
(* State                                                                   *)
(***************************************************************************)
VARIABLES
    newsData,       \* useState({}): section key -> bucket
    breakingNews,   \* useState([])
    loading,        \* useState(true)
    errors,         \* useState({}): section key -> message
    lastFetch,      \* useState(0): a logical timestamp
    settingsHash,   \* useState(''): the fingerprint recorded last
    settings,       \* the settings object the store holds
    cyc,            \* the refreshNews calls made so far, in call order
    phase,          \* "init" (constructed), "mounted", "unmounted"
    timer,          \* the setInterval handle is live
    effectPending,  \* the settings-change effect is due to run again
    monitor,        \* the settings-change effect so far: its evaluations, the
                    \* settings the last one read, its clearNewsCache() calls
    changes,        \* number of writes to the configuration store so far
    prox,           \* one call of calculateProximityScore: inputs and result
    feed,           \* the kind of sources behind the adapters
    fp              \* one comparison of two fingerprints: the two settings
                    \* objects and the fingerprints computed for them

vars == <<newsData, breakingNews, loading, errors, lastFetch, settingsHash,
          settings, cyc, phase, timer, effectPending, monitor, changes, prox, feed, fp>>

\* what the running refreshes and the provider's effects do not write
storeVars == <<settings, changes, prox, feed, fp>>

\* the state refreshNews publishes through its setters
Pub == [newsData |-> newsData, breakingNews |-> breakingNews,
        loading |-> loading, errors |-> errors, lastFetch |-> lastFetch]

SetPub(p) ==
    /\ newsData' = p.newsData
    /\ breakingNews' = p.breakingNews
    /\ loading' = p.loading
    /\ errors' = p.errors
    /\ lastFetch' = p.lastFetch

NullArg == [isNull |-> TRUE, list |-> <<>>]
ListArg(l) == [isNull |-> FALSE, list |-> l]

(***************************************************************************)
(* refreshNews: one call is one record of cyc.  W is a pair of the call's  *)
(* record (c) and the published state (pub) while a step of it runs.       *)
(***************************************************************************)
\* the call up to getSettings(): setLoading(true) and the locals
NewCycle(arg, store, overlapped) ==
    [pc |-> "running", arg |-> arg, cfg |-> store, bi |-> 1, pending |-> {},
     batchResults |-> <<>>, batchErrors |-> EmptyMap,
     allCollectedResults |-> <<>>,
     \* a record of what the call has done, for the properties: the adapter
     \* calls it made and what they settled with, the number of waves it
     \* published, the way it ended, whether another call ran during it and
     \* the sections it left published when it completed
     calls |-> <<>>, got |-> EmptyMap, waves |-> 0, path |-> "running",
     overlapped |-> overlapped, endData |-> EmptyMap]

CycleBatches(c) == Batches(SectionsToFetch(c.arg))

\* the abort that also resets what was published
ConfigUnavailableResetting(W) ==
    [c |-> [W.c EXCEPT !.pc = "done", !.path = "noconfig"],
     pub |-> [W.pub EXCEPT !.loading = FALSE, !.newsData = EmptyMap,
                           !.breakingNews = <<>>, !.errors = EmptyMap]]

\* if (!settings) return;  then finally
ConfigUnavailable(W) ==
    [c |-> [W.c EXCEPT !.pc = "done", !.path = "noconfig"],
     pub |-> [W.pub EXCEPT !.loading = FALSE]]

\* the error neither caught nor followed by setLoading(false)
FatalErrorUnhandled(W) == W

\* catch (error) { console.error(...) } finally { setLoading(false) }
FatalError(W) ==
    [c |-> [W.c EXCEPT !.pc = "done", !.path = "fatal"],
     pub |-> [W.pub EXCEPT !.loading = FALSE]]

\* setLastFetch(Date.now()) ... finally { setLoading(false) }
Complete(W) ==
    [c |-> [W.c EXCEPT !.pc = "done", !.path = "complete",
                       !.endData = W.pub.newsData],
     pub |-> [W.pub EXCEPT !.lastFetch = @ + 1, !.loading = FALSE]]

\* batch.map(async (key) => { if (enabled) { ... await fetchSectionNews(
\*     key, count + 5, settings.newsSources) : every call of the batch is
\* issued before the first one settles
IssueBatch(W) ==
    LET c == W.c
        cfg == c.cfg[1]
        batch == CycleBatches(c)[c.bi]
        keys == SelectSeq(batch, LAMBDA k : SectionEnabled(cfg, k))
    IN  [W EXCEPT
            !.c.pending = Range(keys),
            !.c.calls = @ \o [i \in 1..Len(keys) |->
                                <<keys[i], TargetCount(cfg, keys[i]), cfg.newsSources>>]]

\* a publish that adds the fresh articles to the bucket already published
PublishWaveMerging(W) ==
    LET c == W.c
        all == ObjAssign(c.allCollectedResults, c.batchResults)
        fresh == Redistribute(all)
    IN  [c |-> [c EXCEPT !.allCollectedResults = all,
                         !.batchResults = <<>>,
                         !.batchErrors = EmptyMap,
                         !.bi = @ + 1,
                         !.waves = @ + 1],
         pub |-> [W.pub EXCEPT
                    !.newsData =
                        [k \in DOMAIN @ \cup DOMAIN fresh |->
                            (IF k \in DOMAIN @ THEN @[k] ELSE <<>>)
                            \o (IF k \in DOMAIN fresh THEN fresh[k] ELSE <<>>)],
                    !.errors = Spread(@, c.batchErrors),
                    !.breakingNews = Breaking(FlatValues(all))]]

\* a publish whose shortlist is computed from the new wave alone
PublishWaveShortlistOfWave(W) ==
    LET c == W.c
        all == ObjAssign(c.allCollectedResults, c.batchResults)
    IN  [c |-> [c EXCEPT !.allCollectedResults = all,
                         !.batchResults = <<>>,
                         !.batchErrors = EmptyMap,
                         !.bi = @ + 1,
                         !.waves = @ + 1],
         pub |-> [W.pub EXCEPT
                    !.newsData = Spread(@, Redistribute(all)),
                    !.errors = Spread(@, c.batchErrors),
                    !.breakingNews = Breaking(FlatValues(c.batchResults))]]

\* a publish of the buckets of the new wave alone
PublishWaveOfBatch(W) ==
    LET c == W.c
        all == ObjAssign(c.allCollectedResults, c.batchResults)
    IN  [c |-> [c EXCEPT !.allCollectedResults = all,
                         !.batchResults = <<>>,
                         !.batchErrors = EmptyMap,
                         !.bi = @ + 1,
                         !.waves = @ + 1],
         pub |-> [W.pub EXCEPT
                    !.newsData = Spread(@, Redistribute(c.batchResults)),
                    !.errors = Spread(@, c.batchErrors),
                    !.breakingNews = Breaking(FlatValues(all))]]

\* a publish whose shortlist also ranks the entries published before
PublishWaveKeepsShortlist(W) ==
    LET c == W.c
        all == ObjAssign(c.allCollectedResults, c.batchResults)
    IN  [c |-> [c EXCEPT !.allCollectedResults = all,
                         !.batchResults = <<>>,
                         !.batchErrors = EmptyMap,
                         !.bi = @ + 1,
                         !.waves = @ + 1],
         pub |-> [W.pub EXCEPT
                    !.newsData = Spread(@, Redistribute(all)),
                    !.errors = Spread(@, c.batchErrors),
                    !.breakingNews = Breaking(@ \o FlatValues(all))]]

\* Object.assign(allCollectedResults, batchResults) ... setBreakingNews
PublishWave(W) ==
    LET c == W.c
        all == ObjAssign(c.allCollectedResults, c.batchResults)
    IN  [c |-> [c EXCEPT !.allCollectedResults = all,
                         !.batchResults = <<>>,
                         !.batchErrors = EmptyMap,
                         !.bi = @ + 1,
                         !.waves = @ + 1],
         pub |-> [W.pub EXCEPT
                    !.newsData = Spread(@, Redistribute(all)),
                    !.errors = Spread(@, c.batchErrors),
                    !.breakingNews = Breaking(FlatValues(all))]]

\* for (const batch of batches) { ... } from batch c.bi on, up to the next
\* await that suspends the call or to its end
RECURSIVE RunBatches(_)
RunBatches(W) ==
    IF W.c.bi > Len(CycleBatches(W.c)) THEN Complete(W)
    ELSE IF W.c.cfg[1].sections = <<>> THEN FatalError(W)
    ELSE LET W1 == IssueBatch(W)
         IN  IF W1.c.pending = {} THEN RunBatches(PublishWave(W1)) ELSE W1

\* the synchronous part of a call
StartCycle(arg, store, pub, overlapped) ==
    LET W == [c |-> NewCycle(arg, store, overlapped),
              pub |-> [pub EXCEPT !.loading = TRUE]]
    IN  IF store = <<>> THEN ConfigUnavailable(W) ELSE RunBatches(W)

\* the failure of a fetch not recorded in batchErrors
FetchSettledUnrecorded(c, key, outcome) ==
    [c EXCEPT !.batchResults =
                  ObjSet(@, key, IF outcome.kind = "ok" THEN outcome.articles ELSE <<>>),
              !.pending = @ \ {key},
              !.got = Spread(@, (key :> outcome))]

\* the returned array cut to the configured count
FetchSettledTruncated(c, key, outcome) ==
    LET count == OrZero(c.cfg[1].sections[1][key].count)
        kept == IF Len(outcome.articles) < count THEN Len(outcome.articles) ELSE count
    IN  [c EXCEPT !.batchResults =
                      ObjSet(@, key, IF outcome.kind = "ok"
                                     THEN SubSeq(outcome.articles, 1, kept) ELSE <<>>),
                  !.batchErrors = IF outcome.kind = "throw"
                                  THEN Spread(@, (key :> outcome.message)) ELSE @,
                  !.pending = @ \ {key},
                  !.got = Spread(@, (key :> outcome))]

\* the try/catch around one fetchSectionNews call, when the call settles
FetchSettled(c, key, outcome) ==
    LET results ==
            IF outcome.kind = "ok" THEN outcome.articles ELSE <<>>
        errs ==
            IF outcome.kind = "throw"
            THEN Spread(c.batchErrors, (key :> outcome.message))
            ELSE c.batchErrors
    IN  [c EXCEPT !.batchResults = ObjSet(@, key, results),
                  !.batchErrors = errs,
                  !.pending = @ \ {key},
                  !.got = Spread(@, (key :> outcome))]

\* the call resumed by the first fetch of the batch that settles
AfterSettleRace(c, key, outcome, pub) ==
    RunBatches(PublishWave([c |-> FetchSettled(c, key, outcome), pub |-> pub]))

\* a fetch settles; the last one of the batch resumes the call
AfterSettle(c, key, outcome, pub) ==
    LET W == [c |-> FetchSettled(c, key, outcome), pub |-> pub]
    IN  IF W.c.pending = {} THEN RunBatches(PublishWave(W)) ELSE W

(***************************************************************************)
(* The Settings Fingerprint: JSON.stringify({sources, freshness,           *)
(* enableCache}), as the sequence of the tokens of the JSON text.  A       *)
(* property whose value is undefined is left out; the keys of an object    *)
(* are written in insertion order.                                         *)
(***************************************************************************)
BoolText(b) == IF b THEN "true" ELSE "false"

RECURSIVE SourcesText(_)
SourcesText(sources) ==
    IF sources = <<>> THEN <<>>
    ELSE <<Head(sources)[1], BoolText(Head(sources)[2])>> \o SourcesText(Tail(sources))

\* the fingerprint of the whole settings object
FingerprintWithUiMode(cfg) ==
    <<"{", "sources", "{">> \o SourcesText(cfg.newsSources) \o <<"}">>
    \o (IF cfg.freshnessLimitHours = <<>> THEN <<>>
        ELSE <<"freshness", ToString(cfg.freshnessLimitHours[1])>>)
    \o <<"enableCache", BoolText(cfg.enableCache), "uiMode", cfg.uiMode, "}">>

Fingerprint(cfg) ==
    <<"{", "sources", "{">> \o SourcesText(cfg.newsSources) \o <<"}">>
    \o (IF cfg.freshnessLimitHours = <<>> THEN <<>>
        ELSE <<"freshness", ToString(cfg.freshnessLimitHours[1])>>)
    \o <<"enableCache", BoolText(cfg.enableCache), "}">>

(***************************************************************************)
(* Actions                                                                 *)
(***************************************************************************)
\* a call of refreshNews(arg) by the scheduler, the settings-change effect
\* or a consumer of the context
CallRefresh(arg) ==
    \E store \in getSettings(settings) :
        LET running == {i \in 1..Len(cyc) : cyc[i].pc = "running"}
            W == StartCycle(arg, store, Pub, running # {})
        IN  /\ cyc' = Append([i \in 1..Len(cyc) |->
                                 IF i \in running
                                 THEN [cyc[i] EXCEPT !.overlapped = TRUE]
                                 ELSE cyc[i]],
                             W.c)
            /\ SetPub(W.pub)

\* the body of the settings-change effect, given what getSettings() returned
\* (settings.newsSources of nothing throws: the error unmounts the provider,
\* whose cleanup releases the timer)
RunMonitor(store) ==
    IF store = <<>>
    THEN /\ phase' = "unmounted"
         /\ timer' = FALSE
         /\ effectPending' = FALSE
         /\ monitor' = [monitor EXCEPT !.evals = @ + 1, !.seen = <<>>]
         /\ UNCHANGED <<settingsHash, cyc, newsData, breakingNews, loading,
                        errors, lastFetch>>
    ELSE LET newHash == Fingerprint(store[1])
             changed == settingsHash # <<>> /\ settingsHash # newHash
         IN  /\ settingsHash' = newHash
             /\ effectPending' = (newHash # settingsHash)
             /\ monitor' = [evals |-> monitor.evals + 1,
                            seen |-> store,
                            clears |-> monitor.clears + (IF changed THEN 1 ELSE 0)]
             /\ UNCHANGED <<phase, timer>>
             /\ IF changed
                THEN /\ Len(cyc) < MaxRefreshes
                     /\ CallRefresh(NullArg)
                ELSE UNCHANGED <<cyc, newsData, breakingNews, loading, errors,
                                 lastFetch>>

\* a first evaluation that takes the empty recorded fingerprint for a change
MountInvalidating ==
    /\ phase = "init"
    /\ Len(cyc) < MaxRefreshes
    /\ \E store \in getSettings(settings) :
          IF store = <<>>
          THEN /\ phase' = "unmounted"
               /\ timer' = FALSE
               /\ effectPending' = FALSE
               /\ monitor' = [monitor EXCEPT !.evals = @ + 1]
               /\ UNCHANGED settingsHash
          ELSE /\ phase' = "mounted"
               /\ timer' = TRUE
               /\ settingsHash' = Fingerprint(store[1])
               /\ effectPending' = TRUE
               /\ monitor' = [monitor EXCEPT !.evals = @ + 1, !.seen = store,
                                             !.clears = @ + 1]
    /\ CallRefresh(NullArg)
    /\ UNCHANGED storeVars

\* first commit of NewsProvider: both effects run, in declaration order
Mount ==
    /\ phase = "init"
    /\ Len(cyc) < MaxRefreshes
    /\ \E store \in getSettings(settings) :
          IF store = <<>>
          THEN /\ phase' = "unmounted"
               /\ timer' = FALSE
               /\ effectPending' = FALSE
               /\ monitor' = [monitor EXCEPT !.evals = @ + 1]
               /\ UNCHANGED settingsHash
          ELSE /\ phase' = "mounted"
               /\ timer' = TRUE
               /\ settingsHash' = Fingerprint(store[1])
               /\ effectPending' = TRUE
               /\ monitor' = [monitor EXCEPT !.evals = @ + 1, !.seen = store]
    /\ CallRefresh(NullArg)
    /\ UNCHANGED storeVars

\* the settings-change effect runs again because settingsHash changed
MonitorEval ==
    /\ phase = "mounted"
    /\ effectPending
    /\ \E store \in getSettings(settings) : RunMonitor(store)
    /\ UNCHANGED storeVars

\* setInterval callback, every 5 minutes
Tick ==
    /\ timer
    /\ Len(cyc) < MaxRefreshes
    /\ CallRefresh(NullArg)
    /\ UNCHANGED <<settingsHash, phase, timer, effectPending, monitor, storeVars>>

\* a cleanup that leaves the interval running
TeardownKeepsTimer ==
    /\ phase = "mounted"
    /\ phase' = "unmounted"
    /\ timer' = timer
    /\ effectPending' = FALSE
    /\ UNCHANGED <<newsData, breakingNews, loading, errors, lastFetch,
                   settingsHash, cyc, monitor, storeVars>>

\* cleanup of the scheduler effect
Teardown ==
    /\ phase = "mounted"
    /\ phase' = "unmounted"
    /\ timer' = FALSE
    /\ effectPending' = FALSE
    /\ UNCHANGED <<newsData, breakingNews, loading, errors, lastFetch,
                   settingsHash, cyc, monitor, storeVars>>

\* a consumer calls refreshNews(specificSections) from the context value
RequestArgs == {ListArg(<<"business">>)}

ConsumerRefresh ==
    /\ phase = "mounted"
    /\ Len(cyc) < MaxRefreshes
    /\ \E arg \in RequestArgs : CallRefresh(arg)
    /\ UNCHANGED <<settingsHash, phase, timer, effectPending, monitor, storeVars>>

\* one fetchSectionNews call of a running refresh settles
Settle ==
    \E i \in 1..Len(cyc) :
      \E key \in cyc[i].pending :
        \E outcome \in fetchSectionNews(feed, key) :
          LET W == AfterSettle(cyc[i], key, outcome, Pub)
          IN  /\ cyc' = [cyc EXCEPT ![i] = W.c]
              /\ SetPub(W.pub)
              /\ UNCHANGED <<settingsHash, phase, timer, effectPending,
                             monitor, storeVars>>

(***************************************************************************)
(* Writes to the configuration store (SettingsPage)                        *)
(***************************************************************************)
SourceKeys == {"bbc", "ndtv"}

\* <Toggle checked={settings.newsSources?.[key] !== false}
\*         onChange={(val) => updateNested(`newsSources.${key}`, val)} />
ToggledSources(sources, key) ==
    ObjSet(sources, key,
           ~(IF ObjHas(sources, key) THEN sources[ObjGet(sources, key)][2] ELSE TRUE))

UpdateNewsSource ==
    /\ changes < MaxSettingsChanges
    /\ \E key \in SourceKeys :
          settings' = [settings EXCEPT !.newsSources = ToggledSources(@, key)]
    /\ changes' = changes + 1
    /\ UNCHANGED <<newsData, breakingNews, loading, errors, lastFetch,
                   settingsHash, cyc, phase, timer, effectPending, monitor, prox, feed, fp>>

\* updateSettings({ ...settings, uiMode: e.target.value })
UpdateUiMode ==
    /\ changes < MaxSettingsChanges
    /\ \E mode \in {"timeline", "classic", "newspaper"} \ {settings.uiMode} :
          settings' = [settings EXCEPT !.uiMode = mode]
    /\ changes' = changes + 1
    /\ UNCHANGED <<newsData, breakingNews, loading, errors, lastFetch,
                   settingsHash, cyc, phase, timer, effectPending, monitor, prox, feed, fp>>

\* <Toggle checked={settings.enableCache !== false}
\*         onChange={(val) => updateSettings({ ...settings, enableCache: val })} />
UpdateEnableCache ==
    /\ changes < MaxSettingsChanges
    /\ settings' = [settings EXCEPT !.enableCache = ~@]
    /\ changes' = changes + 1
    /\ UNCHANGED <<newsData, breakingNews, loading, errors, lastFetch,
                   settingsHash, cyc, phase, timer, effectPending, monitor, prox, feed, fp>>

\* a write of freshnessLimitHours to the store
FreshnessValues == {<<26>>, <<48>>}

UpdateFreshness ==
    /\ changes < MaxSettingsChanges
    /\ \E hours \in FreshnessValues \ {settings.freshnessLimitHours} :
          settings' = [settings EXCEPT !.freshnessLimitHours = hours]
    /\ changes' = changes + 1
    /\ UNCHANGED <<newsData, breakingNews, loading, errors, lastFetch,
                   settingsHash, cyc, phase, timer, effectPending, monitor, prox, feed, fp>>

(***************************************************************************)
(* calculateProximityScore                                                 *)
(***************************************************************************)
\* the characters of the modelled texts
Chars == {"M", "m", "u", "x"}

\* LOCATIONS (imported from ../data/geolocation.js): name -> { boost }
LOCATIONS ==
    << [name |-> <<"M", "u">>, boost |-> 18],
       [name |-> <<"u", "x">>, boost |-> 20],
       [name |-> <<"x">>, boost |-> 12] >>

LowerChar(ch) == IF ch = "M" THEN "m" ELSE ch

\* String.prototype.toLowerCase
toLowerCase(str) == [i \in 1..Len(str) |-> LowerChar(str[i])]

\* String.prototype.includes
includes(text, name) ==
    \E i \in 0..(Len(text) - Len(name)) : SubSeq(text, i + 1, i + Len(name)) = name

\* the text not lower-cased
ProximityTextCaseSensitive(title, description) == title \o <<" ">> \o description

\* `${title} ${description}`.toLowerCase()
ProximityText(title, description) == toLowerCase(title \o <<" ">> \o description)

\* for (const [locationName, data] of Object.entries(LOCATIONS)) { ... }
RECURSIVE MaxBoostFrom(_, _, _)
MaxBoostFrom(entries, text, maxBoost) ==
    IF entries = <<>> THEN maxBoost
    ELSE MaxBoostFrom(
            Tail(entries), text,
            IF includes(text, toLowerCase(Head(entries).name))
               /\ Head(entries).boost > maxBoost
            THEN Head(entries).boost ELSE maxBoost)

\* the scorer without the check of enableProximityScoring
calculateProximityScoreAlways(title, description, store) ==
    IF store = <<>> THEN [threw |-> TRUE, value |-> 0]
    ELSE [threw |-> FALSE,
          value |-> MaxBoostFrom(LOCATIONS, ProximityText(title, description), 10)]

\* store is what getSettings() returned; reading a property of nothing throws
calculateProximityScore(title, description, store) ==
    IF store = <<>> THEN [threw |-> TRUE, value |-> 0]
    ELSE IF store[1].enableProximityScoring = <<FALSE>>
         THEN [threw |-> FALSE, value |-> 10]
         ELSE [threw |-> FALSE,
               value |-> MaxBoostFrom(LOCATIONS, ProximityText(title, description), 10)]

ProximityCall ==
    /\ prox.result = <<>>
    /\ \E store \in getSettings(settings) :
          prox' = [prox EXCEPT !.result =
                      <<calculateProximityScore(prox.title, prox.description, store)>>]
    /\ UNCHANGED <<newsData, breakingNews, loading, errors, lastFetch,
                   settingsHash, settings, cyc, phase, timer, effectPending,
                   monitor, changes, feed, fp>>

(***************************************************************************)
(* The Settings Fingerprint alone: one comparison of the fingerprints of   *)
(* two settings objects                                                    *)
(***************************************************************************)
NoComparison == [a |-> DefaultSettings, b |-> DefaultSettings, result |-> <<>>]

\* the newsSources objects over SourceKeys: every set of keys, in every
\* insertion order, with every value
SourcesObjects ==
    {<<>>}
    \cup {<<<<k, v>>>> : k \in SourceKeys, v \in BOOLEAN}
    \cup {o \in {<<<<k1, v1>>, <<k2, v2>>>> :
                    k1 \in SourceKeys, k2 \in SourceKeys,
                    v1 \in BOOLEAN, v2 \in BOOLEAN} : o[1][1] # o[2][1]}

\* the settings objects the fingerprint is computed for
FingerprintInputs ==
    {[DefaultSettings EXCEPT !.newsSources = src, !.freshnessLimitHours = fr,
                             !.enableCache = ec, !.uiMode = ui] :
        src \in SourcesObjects, fr \in {<<>>, <<26>>}, ec \in BOOLEAN,
        ui \in {"timeline", "classic"}}

\* newHash computed for each of the two settings objects
FingerprintCall ==
    /\ fp.result = <<>>
    /\ fp' = [fp EXCEPT !.result = <<Fingerprint(fp.a), Fingerprint(fp.b)>>]
    /\ UNCHANGED <<newsData, breakingNews, loading, errors, lastFetch,
                   settingsHash, settings, cyc, phase, timer, effectPending,
                   monitor, changes, prox, feed>>

Init ==
    /\ newsData = EmptyMap
    /\ breakingNews = <<>>
    /\ loading = TRUE
    /\ errors = EmptyMap
    /\ lastFetch = 0
    /\ settingsHash = <<>>
    /\ settings \in InitialStores
    /\ cyc = <<>>
    /\ phase = "init"
    /\ timer = FALSE
    /\ effectPending = FALSE
    /\ monitor = [evals |-> 0, seen |-> <<>>, clears |-> 0]
    /\ changes = 0
    /\ prox = [title |-> <<>>, description |-> <<>>, result |-> <<>>]
    /\ feed \in {"mixed", "tagged"}
    /\ fp = NoComparison

Next ==
    \/ Mount
    \/ MonitorEval
    \/ Tick
    \/ ConsumerRefresh
    \/ Settle

Spec == Init /\ [][Next]_vars

(***************************************************************************)
(* The provider's life cycle and the settings page, over a store in which  *)
(* only the world section is switched on                                   *)
(***************************************************************************)
WorldOnlySettings ==
    [DefaultSettings EXCEPT
        !.sections = <<[k \in Range(allSections) |->
                          SectionCfg(k = "world", <<5>>)]>>]

InitLife ==
    /\ newsData = EmptyMap
    /\ breakingNews = <<>>
    /\ loading = TRUE
    /\ errors = EmptyMap
    /\ lastFetch = 0
    /\ settingsHash = <<>>
    /\ settings = WorldOnlySettings
    /\ cyc = <<>>
    /\ phase = "init"
    /\ timer = FALSE
    /\ effectPending = FALSE
    /\ monitor = [evals |-> 0, seen |-> <<>>, clears |-> 0]
    /\ changes = 0
    /\ prox = [title |-> <<>>, description |-> <<>>, result |-> <<>>]
    /\ feed = "steady"
    /\ fp = NoComparison

NextLife ==
    \/ Mount
    \/ MonitorEval
    \/ Tick
    \/ Teardown
    \/ Settle
    \/ UpdateNewsSource
    \/ UpdateUiMode
    \/ UpdateEnableCache
    \/ UpdateFreshness

SpecLife == InitLife /\ [][NextLife]_vars

\* the same with the scheduling the runtime guarantees: the effects of a
\* commit run, an effect whose dependencies changed runs again and the
\* interval fires.  A fetch settles when the network lets it (no call of
\* fetchSectionNews is given a time limit); the settings page is used or
\* not, and the provider is torn down or not, as the user chooses.
SpecLifeFair ==
    /\ InitLife
    /\ [][NextLife]_vars
    /\ WF_vars(Mount)
    /\ WF_vars(MonitorEval)
    /\ WF_vars(Tick)

(***************************************************************************)
(* The proximity scorer alone: one call on each input                      *)
(***************************************************************************)
RECURSIVE TextsUpTo(_)
TextsUpTo(n) ==
    IF n = 0 THEN {<<>>}
    ELSE TextsUpTo(n - 1)
         \cup {Append(t, ch) : t \in {u \in TextsUpTo(n - 1) : Len(u) = n - 1}, ch \in Chars}

ProximityStores ==
    {[DefaultSettings EXCEPT !.enableProximityScoring = flag] :
        flag \in {<<>>, <<TRUE>>, <<FALSE>>}}

InitProx ==
    /\ newsData = EmptyMap
    /\ breakingNews = <<>>
    /\ loading = TRUE
    /\ errors = EmptyMap
    /\ lastFetch = 0
    /\ settingsHash = <<>>
    /\ settings \in ProximityStores
    /\ cyc = <<>>
    /\ phase = "init"
    /\ timer = FALSE
    /\ effectPending = FALSE
    /\ monitor = [evals |-> 0, seen |-> <<>>, clears |-> 0]
    /\ changes = 0
    /\ prox \in [title : TextsUpTo(MaxTextLen), description : TextsUpTo(MaxTextLen),
                  result : {<<>>}]
    /\ feed = "mixed"
    /\ fp = NoComparison

NextProx == ProximityCall

SpecProx == InitProx /\ [][NextProx]_vars

(***************************************************************************)
(* Refreshes over sources that return articles of other sections           *)
(***************************************************************************)
InitStray ==
    /\ newsData = EmptyMap
    /\ breakingNews = <<>>
    /\ loading = TRUE
    /\ errors = EmptyMap
    /\ lastFetch = 0
    /\ settingsHash = <<>>
    /\ settings \in {WorldOnlySettings, DefaultSettings}
    /\ cyc = <<>>
    /\ phase = "init"
    /\ timer = FALSE
    /\ effectPending = FALSE
    /\ monitor = [evals |-> 0, seen |-> <<>>, clears |-> 0]
    /\ changes = 0
    /\ prox = [title |-> <<>>, description |-> <<>>, result |-> <<>>]
    /\ feed = "stray"
    /\ fp = NoComparison

NextStray ==
    \/ Mount
    \/ MonitorEval
    \/ Tick
    \/ Settle

SpecStray == InitStray /\ [][NextStray]_vars

InitFp ==
    /\ newsData = EmptyMap
    /\ breakingNews = <<>>
    /\ loading = TRUE
    /\ errors = EmptyMap
    /\ lastFetch = 0
    /\ settingsHash = <<>>
    /\ settings = DefaultSettings
    /\ cyc = <<>>
    /\ phase = "init"
    /\ timer = FALSE
    /\ effectPending = FALSE
    /\ monitor = [evals |-> 0, seen |-> <<>>, clears |-> 0]
    /\ changes = 0
    /\ prox = [title |-> <<>>, description |-> <<>>, result |-> <<>>]
    /\ feed = "mixed"
    /\ fp \in [a : FingerprintInputs, b : FingerprintInputs, result : {<<>>}]

NextFp == FingerprintCall

SpecFp == InitFp /\ [][NextFp]_vars

(***************************************************************************)
(* Properties                                                              *)
(***************************************************************************)
Cycles == 1..Len(cyc)

Impact(a) == IF a.impactScore = <<>> THEN 0 ELSE a.impactScore[1]

\* bucket is ordered by non-increasing impactScore
NonIncreasing(bucket) ==
    \A i \in 1..(Len(bucket) - 1) : Impact(bucket[i]) >= Impact(bucket[i + 1])

\* number of places at which article a occurs in list
Count(list, a) == Cardinality({i \in 1..Len(list) : list[i] = a})

\* the two lists hold the same articles, each as often
SameArticles(l1, l2) ==
    /\ Len(l1) = Len(l2)
    /\ \A a \in Range(l1) \cup Range(l2) : Count(l1, a) = Count(l2, a)

\* the articles a call has accumulated: the arrays its settled fetches returned
Accumulated(c) ==
    UNION {Range(c.got[k].articles) : k \in DOMAIN c.got}

Qualifies(a) ==
    a.isBreaking = TRUE \/ (a.breakingScore # <<>> /\ a.breakingScore[1] > 15)

\* C1: refreshNews never rejects: every call that has ended ended on one of
\* the three paths that resolve (completed, configuration unavailable, fatal
\* error caught), a failed fetch never takes the call to the fatal path, and
\* a fetch of section S that failed has an entry for S in the wave's error
\* map and an empty list as S's result until the wave is published, and an
\* entry in the published errors map and an empty list in the accumulated
\* results afterwards.
C1_RefreshNeverRejects ==
    \A i \in Cycles :
        LET c == cyc[i]
        IN  /\ c.pc = "done" => c.path \in {"complete", "noconfig", "fatal"}
            /\ c.pc = "running" => c.path = "running"
            /\ \A S \in DOMAIN c.got :
                  c.got[S].kind = "throw" =>
                    /\ c.path \in {"running", "complete"}
                    /\ IF ObjHas(c.batchResults, S)
                       THEN /\ c.batchResults[ObjGet(c.batchResults, S)][2] = <<>>
                            /\ S \in DOMAIN c.batchErrors
                            /\ c.batchErrors[S] = c.got[S].message
                       ELSE /\ S \in DOMAIN errors
                            /\ ObjHas(c.allCollectedResults, S)
                            /\ c.allCollectedResults[ObjGet(c.allCollectedResults, S)][2] = <<>>

\* a call whose world fetch failed went on to fetch business and completed
C1_Witness ==
    \E i \in Cycles :
        /\ cyc[i].path = "complete"
        /\ "world" \in DOMAIN cyc[i].got
        /\ cyc[i].got["world"].kind = "throw"
        /\ "business" \in DOMAIN cyc[i].got
        /\ "world" \in DOMAIN errors

\* C2: every published section bucket is ordered by non-increasing
\* impactScore, a missing impactScore counting as 0.
C2_SortInvariant == \A k \in DOMAIN newsData : NonIncreasing(newsData[k])

\* the adapter returned w2 (50) before w1 (70); the bucket holds w1 first
C2_Witness ==
    /\ "world" \in DOMAIN newsData
    /\ newsData["world"] = <<aW1, aW2>>
    /\ \E i \in Cycles : /\ "world" \in DOMAIN cyc[i].got
                         /\ cyc[i].got["world"].articles = <<aW2, aB1, aW1>>

\* C3: every article of published bucket K carries section K, or carries no
\* section and K is "uncategorized".
C3_Reclassification ==
    \A k \in DOMAIN newsData :
        \A i \in 1..Len(newsData[k]) :
            \/ newsData[k][i].section # "" /\ newsData[k][i].section = k
            \/ newsData[k][i].section = "" /\ k = "uncategorized"

\* an article tagged business that only the world fetch returned is
\* published under business, and one without a section under uncategorized
C3_Witness ==
    /\ Len(cyc) = 1
    /\ DOMAIN cyc[1].got = {"world", "india"}
    /\ aB1 \in Range(cyc[1].got["world"].articles)
    /\ "business" \in DOMAIN newsData
    /\ aB1 \in Range(newsData["business"])
    /\ "uncategorized" \in DOMAIN newsData
    /\ aU1 \in Range(newsData["uncategorized"])

\* C4: the published shortlist has at most 3 entries, each with isBreaking
\* set or a breakingScore above 1.5; and a step in which a call publishes a
\* wave leaves the shortlist empty when none of the articles the call has
\* accumulated passes that filter.
C4_ShortlistShape ==
    /\ Len(breakingNews) <= 3
    /\ \A i \in 1..Len(breakingNews) : Qualifies(breakingNews[i])

C4_EmptyWhenNoneQualifies ==
    \A i \in 1..Len(cyc') :
        LET before == IF i \in Cycles THEN cyc[i].waves ELSE 0
        IN  (cyc'[i].waves > before /\ \A a \in Accumulated(cyc'[i]) : ~Qualifies(a))
                => breakingNews' = <<>>

C4_BreakingShortlist == [](C4_ShortlistShape) /\ [][C4_EmptyWhenNoneQualifies]_vars

\* four accumulated articles pass the filter and three are published
C4_Witness ==
    \E i \in Cycles :
        /\ cyc[i].path = "complete"
        /\ Cardinality({a \in Accumulated(cyc[i]) : Qualifies(a)}) = 4
        /\ Len(breakingNews) = 3
        /\ breakingNews = <<aI1, aW1, aB2>>

\* two refreshNews(null) calls in succession, neither overlapping any other
\* call, under the same configuration and with the same adapter outputs
Successive(i) ==
    /\ i + 1 \in Cycles
    /\ cyc[i].arg.isNull /\ cyc[i + 1].arg.isNull
    /\ cyc[i].path = "complete" /\ cyc[i + 1].path = "complete"
    /\ ~cyc[i].overlapped /\ ~cyc[i + 1].overlapped
    /\ cyc[i].cfg = cyc[i + 1].cfg
    /\ cyc[i].got = cyc[i + 1].got

\* C5: refresh(null) twice in succession with an unchanged configuration and
\* identical adapter outputs leaves the published sections after the second
\* run identical to those after the first.
C5_Idempotence ==
    \A i \in Cycles : Successive(i) => cyc[i + 1].endData = cyc[i].endData

\* C7: from the initial state, one refresh(null) in which every adapter
\* succeeds with articles of the requested section only publishes, for each
\* section fetched, the articles its adapter returned, all of them, ordered
\* by non-increasing impactScore, and leaves the errors map empty.
OnlyRequestedSection(c) ==
    \A k \in DOMAIN c.got :
        /\ c.got[k].kind = "ok"
        /\ \A a \in Range(c.got[k].articles) : a.section = k

C7_EndToEnd ==
    (/\ Len(cyc) = 1
     /\ cyc[1].arg.isNull
     /\ cyc[1].path = "complete"
     /\ OnlyRequestedSection(cyc[1]))
    => /\ errors = EmptyMap
       /\ DOMAIN newsData = DOMAIN cyc[1].got
       /\ \A k \in DOMAIN cyc[1].got :
             /\ SameArticles(newsData[k], cyc[1].got[k].articles)
             /\ NonIncreasing(newsData[k])

\* world has count 1 and its adapter returned two articles: both published
C7_Witness ==
    /\ Len(cyc) = 1
    /\ cyc[1].arg.isNull
    /\ cyc[1].path = "complete"
    /\ OnlyRequestedSection(cyc[1])
    /\ DOMAIN cyc[1].got = {"world", "business"}
    /\ cyc[1].cfg[1].sections[1]["world"].count = <<1>>
    /\ newsData["world"] = <<aW1, aW2>>
    /\ Len(newsData["business"]) = 2

\* C10: a call has issued a fetch for a low-priority section only if every
\* high-priority fetch it issued has settled and, when its section list has
\* a high-priority section, it has published a wave.
LowKeys(c) == {k \in Range(lowPriority(SectionsToFetch(c.arg))) : TRUE}
HighKeys(c) == {k \in Range(highPriority(SectionsToFetch(c.arg))) : TRUE}
Issued(c) == {c.calls[j][1] : j \in 1..Len(c.calls)}

C10_BatchesSequential ==
    \A i \in Cycles :
        LET c == cyc[i]
        IN  (Issued(c) \cap {"local", "social", "entertainment", "business", "technology"} # {})
              => /\ (Issued(c) \cap {"world", "india", "chennai", "trichy"}) \subseteq DOMAIN c.got
                 /\ c.pending \cap {"world", "india", "chennai", "trichy"} = {}
                 /\ (HighKeys(c) # {} => c.waves >= 1)

\* the business fetch is in flight after the world fetch settled and the
\* first wave was published
C10_Witness ==
    \E i \in Cycles :
        /\ cyc[i].pending = {"business"}
        /\ "world" \in DOMAIN cyc[i].got
        /\ cyc[i].waves = 1
        /\ "world" \in DOMAIN newsData

\* the fields of the configuration that affect fetched content, as values
SourcesMap(sources) ==
    [k \in Range(ObjKeys(sources)) |-> sources[ObjGet(sources, k)][2]]

ContentFields(cfg) ==
    [sources |-> SourcesMap(cfg.newsSources),
     freshness |-> cfg.freshnessLimitHours,
     enableCache |-> cfg.enableCache]

\* C6: an evaluation of the Change Monitor that follows another one calls
\* clearNewsCache exactly once and starts exactly one refreshNews(null) when
\* newsSources, freshnessLimitHours or enableCache differ from what the
\* previous evaluation read, and does neither when they are the same (only
\* another field, such as uiMode, changed); no other step calls clearNewsCache.
C6_Step ==
    LET evaluated == monitor'.evals = monitor.evals + 1
    IN  /\ ~evaluated => monitor'.clears = monitor.clears
        /\ (evaluated /\ monitor.seen # <<>> /\ monitor'.seen # <<>>) =>
              IF ContentFields(monitor'.seen[1]) # ContentFields(monitor.seen[1])
              THEN /\ monitor'.clears = monitor.clears + 1
                   /\ Len(cyc') = Len(cyc) + 1
                   /\ cyc'[Len(cyc')].arg.isNull
              ELSE /\ monitor'.clears = monitor.clears
                   /\ Len(cyc') = Len(cyc)

C6_ChangeTriggersOnce == [][C6_Step]_vars

\* bbc was switched off between the first and the second evaluation: one
\* invalidation, and a second refresh(null) beside the scheduler's
C6_Witness ==
    /\ monitor.evals = 2
    /\ monitor.clears = 1
    /\ monitor.seen # <<>>
    /\ monitor.seen[1].newsSources = <<<<"bbc", FALSE>>>>
    /\ Len(cyc) = 2
    /\ cyc[2].arg.isNull

\* C8: with enableProximityScoring false the scorer returns exactly 1.0,
\* whatever the title and the description.
C8_DisabledReturnsOne ==
    (/\ prox.result # <<>>
     /\ ~prox.result[1].threw
     /\ settings.enableProximityScoring = <<FALSE>>)
    => prox.result[1].value = 10

\* the title is a gazetteer name and the score is 1.0
C8_Witness ==
    /\ prox.result # <<>>
    /\ ~prox.result[1].threw
    /\ settings.enableProximityScoring = <<FALSE>>
    /\ prox.title = <<"M", "u">>
    /\ prox.result[1].value = 10

\* name occurs in title + " " + description, letter case ignored
Occurs(name, title, description) ==
    LET text == title \o <<" ">> \o description
    IN  \E i \in 0..(Len(text) - Len(name)) :
            \A j \in 1..Len(name) : LowerChar(text[i + j]) = LowerChar(name[j])

MatchingBoosts(title, description) ==
    {LOCATIONS[n].boost :
        n \in {m \in 1..Len(LOCATIONS) : Occurs(LOCATIONS[m].name, title, description)}}

Largest(S) == CHOOSE x \in S : \A y \in S : y <= x

\* C9: with proximity scoring not disabled the scorer returns the largest
\* boost among the gazetteer entries whose name occurs in the text, 1.0 when
\* none occurs, and the result lies between 1.0 and the largest boost of the
\* gazetteer.
C9_MaxMatchingBoost ==
    (/\ prox.result # <<>>
     /\ ~prox.result[1].threw
     /\ settings.enableProximityScoring # <<FALSE>>)
    => LET boosts == MatchingBoosts(prox.title, prox.description)
       IN  /\ prox.result[1].value = (IF boosts = {} THEN 10 ELSE Largest(boosts))
           /\ prox.result[1].value >= 10
           /\ prox.result[1].value <=
                 Largest({LOCATIONS[n].boost : n \in 1..Len(LOCATIONS)})

\* all three entries occur, in either letter case, and the largest boost,
\* the second entry's, is returned
C9_Witness ==
    /\ prox.result # <<>>
    /\ ~prox.result[1].threw
    /\ settings.enableProximityScoring # <<FALSE>>
    /\ prox.title = <<"u", "x">>
    /\ prox.description = <<"m", "u">>
    /\ MatchingBoosts(prox.title, prox.description) = {18, 20, 12}
    /\ prox.result[1].value = 20

\* the section an article is classified under
SectionOf(a) == IF a.section = "" THEN "uncategorized" ELSE a.section

\* the fetches of a call that have been issued and have not settled are the
\* pending ones, and the call has published one wave for each batch it passed
C11_Barrier ==
    \A i \in Cycles :
        LET c == cyc[i]
        IN  /\ Issued(c) \ c.pending \subseteq DOMAIN c.got
            /\ c.pending \cap DOMAIN c.got = {}
            /\ c.pc = "done" => c.pending = {}
            /\ c.path \in {"running", "complete"} => c.waves = c.bi - 1

\* a step in which a call publishes a wave publishes every article that any
\* of its settled fetches returned, under the article's section
C11_SiblingsIncluded ==
    \A i \in 1..Len(cyc') :
        LET before == IF i \in Cycles THEN cyc[i].waves ELSE 0
            c == cyc'[i]
        IN  c.waves > before =>
              /\ c.pending = {} \/ c.pending \cap Issued(cyc[i]) = {}
              /\ \A k \in DOMAIN c.got :
                    \A a \in Range(c.got[k].articles) :
                        /\ SectionOf(a) \in DOMAIN newsData'
                        /\ a \in Range(newsData'[SectionOf(a)])

\* C11: join barrier: a call publishes the wave of a batch only when every
\* fetch it issued in that batch has settled, by success or by failure, and
\* the publish holds the articles of every fetch that succeeded, also when a
\* sibling fetch failed.
C11_JoinBarrier == [](C11_Barrier) /\ [][C11_SiblingsIncluded]_vars

\* the world fetch failed first, the india fetch was still awaited, and its
\* articles are in the wave the call published
C11_Witness ==
    /\ Len(cyc) = 1
    /\ DOMAIN cyc[1].got = {"world", "india"}
    /\ cyc[1].got["world"].kind = "throw"
    /\ cyc[1].got["india"].articles = <<aB2, aU1, aI1>>
    /\ cyc[1].waves >= 1
    /\ "world" \in DOMAIN errors
    /\ newsData["india"] = <<aI1>>
    /\ newsData["business"] = <<aB2>>
    /\ newsData["world"] = <<>>

\* the sections of a call's list that its configuration switches on
EnabledKeys(c) ==
    {k \in Range(SectionsToFetch(c.arg)) :
        /\ k \in DOMAIN c.cfg[1].sections[1]
        /\ c.cfg[1].sections[1][k].enabled = TRUE}

\* a step that starts a call to which the store returned nothing: the call
\* has ended without an adapter call and without a wave, and the published
\* sections, shortlist, errors and lastFetch are what they were
C12_AbortStep ==
    \A i \in 1..Len(cyc') :
        (i \notin Cycles /\ cyc'[i].cfg = <<>>) =>
            /\ cyc'[i].pc = "done"
            /\ cyc'[i].path = "noconfig"
            /\ cyc'[i].calls = <<>>
            /\ cyc'[i].waves = 0
            /\ newsData' = newsData
            /\ breakingNews' = breakingNews
            /\ errors' = errors
            /\ lastFetch' = lastFetch

\* a call that got a configuration after a call that got none fetches the
\* enabled sections of its list and completes
C12_LaterRuns ==
    \A i \in Cycles :
        (/\ i > 1
         /\ cyc[i - 1].path = "noconfig"
         /\ cyc[i].cfg # <<>>
         /\ cyc[i].cfg[1].sections # <<>>) =>
            /\ cyc[i].path \in {"running", "complete"}
            /\ cyc[i].path = "complete" =>
                  /\ DOMAIN cyc[i].got = EnabledKeys(cyc[i])
                  /\ lastFetch >= 1

\* C12: when the configuration store returns nothing at the start of
\* refreshNews the call ends before any adapter call and leaves the published
\* sections, breakingNews, errors and lastFetch as they were; a later call
\* that gets a configuration runs normally.
C12_ConfigurationUnavailable == [](C12_LaterRuns) /\ [][C12_AbortStep]_vars

\* a first refresh published sections and an error; the second got no
\* configuration and left them in place
C12_Witness ==
    /\ Len(cyc) = 2
    /\ cyc[1].path = "complete"
    /\ cyc[2].path = "noconfig"
    /\ cyc[2].calls = <<>>
    /\ newsData = cyc[1].endData
    /\ "business" \in DOMAIN newsData
    /\ newsData["business"] # <<>>
    /\ errors # EmptyMap
    /\ lastFetch = 1
    /\ ~loading

\* C13: absence of an error entry is the success signal: when the latest
\* refresh has completed, without another call running during it, the
\* published errors map has no entry for a section whose fetch succeeded in
\* that refresh, also when the section's fetch failed in an earlier one.
C13_NoErrorForSucceeded ==
    \A i \in Cycles :
        (/\ i = Len(cyc)
         /\ cyc[i].path = "complete"
         /\ ~cyc[i].overlapped) =>
            \A k \in DOMAIN cyc[i].got :
                cyc[i].got[k].kind = "ok" => k \notin DOMAIN errors

\* the timer is live exactly while the provider is mounted
C14_TimerReleased == timer <=> phase = "mounted"

\* the number of refreshNews calls a step starts
C14_SchedulerStep ==
    LET started == Len(cyc') - Len(cyc)
        evaluated == monitor'.evals # monitor.evals
    IN  \* mounting starts one refreshNews()
        /\ (phase = "init" /\ phase' = "mounted") =>
              started = 1 /\ cyc'[Len(cyc')].arg.isNull
        \* a step of the mounted provider other than an evaluation of the
        \* Change Monitor starts at most one, the tick's
        /\ (phase = "mounted" /\ ~evaluated /\ started > 0) =>
              timer /\ started = 1 /\ cyc'[Len(cyc')].arg.isNull
        \* teardown starts none and leaves the calls in flight as they are
        /\ (phase = "mounted" /\ phase' = "unmounted") => cyc' = cyc
        \* after teardown no call is started
        /\ phase = "unmounted" => started = 0

\* C14: the scheduler starts one refresh on mount and one on every tick of
\* its timer; teardown releases the timer, after it no refresh is started,
\* and a refresh in flight at teardown is not cancelled.
C14_Scheduler == [](C14_TimerReleased) /\ [][C14_SchedulerStep]_vars

\* the provider was mounted and torn down while the refresh of a tick was in
\* flight; the fetch of that refresh is still awaited
C14_Witness ==
    /\ phase = "unmounted"
    /\ ~timer
    /\ monitor.seen # <<>>
    /\ Len(cyc) = 2
    /\ cyc[1].path = "complete"
    /\ cyc[2].pc = "running"
    /\ cyc[2].pending = {"world"}

\* C15: change detection is live: whenever newsSources, freshnessLimitHours
\* or enableCache in the store differ from what the Change Monitor read last
\* while the provider is mounted, the monitor eventually evaluates the new
\* values (and so invalidates the cache and starts refreshNews(null)), unless
\* the provider is torn down first.  (An evaluation that is due and that
\* only the bound on the number of calls holds back counts as made.)
C15_ChangeDetectionLive ==
    (/\ phase = "mounted"
     /\ monitor.seen # <<>>
     /\ ContentFields(settings) # ContentFields(monitor.seen[1]))
    ~> (\/ phase # "mounted"
        \/ /\ monitor.seen # <<>>
           /\ ContentFields(monitor.seen[1]) = ContentFields(settings)
        \/ effectPending /\ Len(cyc) >= MaxRefreshes)

\* while the Change Monitor has evaluated once only, clearNewsCache has not
\* been called
C16_NoInvalidation == monitor.evals <= 1 => monitor.clears = 0

\* the step that mounts the provider makes the first evaluation, which
\* records the fingerprint, and starts one refreshNews(null)
C16_MountStep ==
    (phase = "init" /\ phase' = "mounted") =>
        /\ settingsHash = <<>>
        /\ monitor.evals = 0
        /\ monitor'.evals = 1
        /\ monitor'.seen # <<>>
        /\ settingsHash' # <<>>
        /\ monitor'.clears = 0
        /\ Len(cyc') = Len(cyc) + 1
        /\ cyc'[Len(cyc')].arg.isNull

\* C16: the first evaluation of the Change Monitor after start-up only
\* records the fingerprint: it calls neither clearNewsCache nor refreshNews,
\* so exactly one refresh, the scheduler's, is started at mount.
C16_FirstEvaluationRecords == [](C16_NoInvalidation) /\ [][C16_MountStep]_vars

\* mounted: one evaluation, a fingerprint recorded, no invalidation, one call
C16_Witness ==
    /\ phase = "mounted"
    /\ monitor.evals = 1
    /\ monitor.clears = 0
    /\ settingsHash = Fingerprint(settings)
    /\ Len(settingsHash) > 0
    /\ Len(cyc) = 1
    /\ cyc[1].arg.isNull

\* the buckets of the wave a call published last
LastWave(c) == Redistribute(c.allCollectedResults)

\* C17: overlapping refreshes: a call started while another is in flight
\* leaves that one's pending fetches as they are; and every step either
\* leaves the published sections alone or is the publish of one call, after
\* which every bucket of that call's wave is published exactly as the wave
\* holds it and every other bucket is what it was (last write wins, bucket by
\* bucket, never a merge of two publishes' articles).
C17_Step ==
    /\ \A i \in Cycles :
          /\ Len(cyc') >= Len(cyc)
          /\ (Len(cyc') > Len(cyc)) =>
                /\ cyc'[i].pc = cyc[i].pc
                /\ cyc'[i].pending = cyc[i].pending
                /\ cyc'[i].waves = cyc[i].waves
    /\ LET publishers ==
               {i \in 1..Len(cyc') :
                   cyc'[i].waves > (IF i \in Cycles THEN cyc[i].waves ELSE 0)}
       IN  IF publishers = {}
           THEN newsData' = newsData
           ELSE /\ Cardinality(publishers) = 1
                /\ \A i \in publishers :
                      LET wave == LastWave(cyc'[i])
                      IN  /\ DOMAIN newsData' = DOMAIN newsData \cup DOMAIN wave
                          /\ \A k \in DOMAIN newsData' :
                                newsData'[k] = IF k \in DOMAIN wave
                                               THEN wave[k] ELSE newsData[k]

C17_LastWriteWins == [][C17_Step]_vars

\* two calls overlapped and both completed; the world bucket is the one the
\* second call published and the business bucket, which the second call's
\* wave did not hold, the one the first call published
C17_Witness ==
    /\ Len(cyc) = 2
    /\ cyc[1].overlapped /\ cyc[2].overlapped
    /\ cyc[1].path = "complete" /\ cyc[2].path = "complete"
    /\ cyc[1].waves >= 1 /\ cyc[2].waves >= 1
    /\ "world" \in DOMAIN LastWave(cyc[1]) \cap DOMAIN LastWave(cyc[2])
    /\ newsData["world"] = LastWave(cyc[2])["world"]
    /\ newsData["world"] # LastWave(cyc[1])["world"]
    /\ "business" \in DOMAIN LastWave(cyc[1]) \ DOMAIN LastWave(cyc[2])
    /\ newsData["business"] = LastWave(cyc[1])["business"]
    /\ Len(newsData["business"]) = 2

\* C18: the feed of a section is de-duplicated by identity: no published
\* bucket holds two articles with the same link, also when the adapters of
\* two requested sections return the same article.
C18_NoDuplicateLinks ==
    \A k \in DOMAIN newsData :
        \A i, j \in 1..Len(newsData[k]) :
            i # j => newsData[k][i].link # newsData[k][j].link

BScore(a) == IF a.breakingScore = <<>> THEN 0 ELSE a.breakingScore[1]

\* the articles a call has accumulated over its waves, one entry for each
\* time an adapter returned the article
AccumulatedList(c) == FlatValues(c.allCollectedResults)

\* list holds the (at most 3) entries of `all` that pass the filter and have
\* the largest breakingScore, ordered by non-increasing breakingScore
IsTopThree(list, all) ==
    LET passing == {i \in 1..Len(all) : Qualifies(all[i])}
    IN  /\ Len(list) = (IF Cardinality(passing) < 3 THEN Cardinality(passing) ELSE 3)
        /\ \A i \in 1..Len(list) :
              /\ Qualifies(list[i])
              /\ Count(list, list[i]) <= Count(all, list[i])
        /\ \A i \in 1..(Len(list) - 1) : BScore(list[i]) >= BScore(list[i + 1])
        /\ \A p \in passing :
              Count(list, all[p]) < Count(all, all[p]) =>
                  \A i \in 1..Len(list) : BScore(list[i]) >= BScore(all[p])

\* C19: the step in which a call publishes a wave sets breakingNews to the
\* first 3, by descending breakingScore, of the articles passing the filter
\* among all the call has accumulated over its waves so far, not among the
\* new wave's only.
C19_Step ==
    \A i \in 1..Len(cyc') :
        cyc'[i].waves > (IF i \in Cycles THEN cyc[i].waves ELSE 0) =>
            /\ IsTopThree(breakingNews', AccumulatedList(cyc'[i]))
            /\ \A k \in DOMAIN cyc'[i].got :
                  \A a \in Range(cyc'[i].got[k].articles) :
                      Count(AccumulatedList(cyc'[i]), a) >= 1

C19_ShortlistFromAccumulated == [][C19_Step]_vars

\* w1 came with the high-priority wave only and is still first in the
\* shortlist after the low-priority wave, which brought b1 once more
C19_Witness ==
    /\ Len(cyc) = 1
    /\ cyc[1].waves = 2
    /\ DOMAIN cyc[1].got = {"world", "business"}
    /\ aW1 \in Range(cyc[1].got["world"].articles)
    /\ aW1 \notin Range(cyc[1].got["business"].articles)
    /\ breakingNews = <<aW1, aB1, aB1>>

\* C20: a call invokes the adapter for a section only if the section is in
\* its list and the configuration switches it on, at most once, with target
\* count c + 5 for the configured count c (any c from 0 to 25) and with the
\* configured newsSources; and a call that completed invoked it for every
\* such section.
C20_AdapterCalls ==
    \A i \in Cycles :
        LET c == cyc[i]
        IN  (c.cfg # <<>> /\ c.cfg[1].sections # <<>>) =>
              /\ \A j \in 1..Len(c.calls) :
                    LET key == c.calls[j][1]
                        count == c.cfg[1].sections[1][key].count
                    IN  /\ key \in EnabledKeys(c)
                        /\ \A h \in 1..Len(c.calls) : c.calls[h][1] = key => h = j
                        /\ (count # <<>> /\ count[1] \in 0..25) =>
                              c.calls[j][2] = count[1] + 5
                        /\ c.calls[j][3] = c.cfg[1].newsSources
              /\ c.path = "complete" => Issued(c) = EnabledKeys(c)

\* the number of batches of a call's section list that hold a section
NonEmptyBatches(c) ==
    (IF HighKeys(c) # {} THEN 1 ELSE 0) + (IF LowKeys(c) # {} THEN 1 ELSE 0)

\* C21: a call publishes once for each non-empty batch and never for an
\* empty one: it has published at most as many waves as its list has
\* non-empty batches, exactly as many when it has completed (two for a full
\* refresh), and while it has published one wave of two, that wave is the
\* high-priority one: it holds high-priority keys only and no low-priority
\* fetch has settled.
C21_OnePublishPerBatch ==
    \A i \in Cycles :
        LET c == cyc[i]
        IN  /\ c.waves <= NonEmptyBatches(c)
            /\ c.path = "complete" => c.waves = NonEmptyBatches(c)
            /\ (c.path = "complete" /\ c.arg.isNull) => c.waves = 2
            /\ c.path \in {"noconfig", "fatal"} => c.waves = 0
            /\ (c.waves = 1 /\ NonEmptyBatches(c) = 2) =>
                  /\ Range(ObjKeys(c.allCollectedResults)) \subseteq HighKeys(c)
                  /\ DOMAIN c.got \subseteq HighKeys(c)
            /\ c.waves = 0 => c.allCollectedResults = <<>>

\* a full refresh completed with two publishes and a refresh of the
\* business section alone with one
C21_Witness ==
    /\ Len(cyc) = 2
    /\ cyc[1].arg.isNull /\ cyc[1].path = "complete" /\ cyc[1].waves = 2
    /\ DOMAIN cyc[1].got = {"world", "business"}
    /\ ~cyc[2].arg.isNull /\ cyc[2].path = "complete" /\ cyc[2].waves = 1
    /\ DOMAIN cyc[2].got = {"business"}

\* the latest call, during which no other call ran
LatestAlone(i) == i = Len(cyc) /\ ~cyc[i].overlapped

\* C22: accumulation across waves: when a call during which no other call
\* ran has published its low-priority wave, every article a high-priority
\* fetch of it returned is in the published bucket of the article's section.
C22_AccumulationAcrossWaves ==
    \A i \in Cycles :
        (LatestAlone(i) /\ cyc[i].waves = 2) =>
            \A k \in DOMAIN cyc[i].got \cap HighKeys(cyc[i]) :
                \A a \in Range(cyc[i].got[k].articles) :
                    /\ SectionOf(a) \in DOMAIN newsData
                    /\ a \in Range(newsData[SectionOf(a)])

\* b1 came with the world fetch; the business fetch of the second wave
\* returned no array, and b1 is still in the business bucket
C22_Witness ==
    /\ Len(cyc) = 1
    /\ cyc[1].waves = 2
    /\ DOMAIN cyc[1].got = {"world", "business"}
    /\ cyc[1].got["world"].articles = <<aW2, aB1, aW1>>
    /\ cyc[1].got["business"].kind = "notarray"
    /\ newsData["business"] = <<aB1>>
    /\ newsData["world"] = <<aW1, aW2>>

\* C23: the Settings Fingerprint is a structural function of newsSources,
\* freshnessLimitHours and enableCache: two settings objects in which these
\* fields are equal as mappings have equal fingerprints, whatever the order
\* in which the source keys were inserted and whatever their other fields.
C23_FingerprintStructural ==
    (fp.result # <<>> /\ ContentFields(fp.a) = ContentFields(fp.b))
        => fp.result[1] = fp.result[2]

\* the articles a call has accumulated that carry section k
OfSection(c, k) == {a \in Accumulated(c) : SectionOf(a) = k}

\* C24: after a publish of the latest call, during which no other call ran,
\* the bucket of every section the call fetched holds articles of that
\* section which the call accumulated, and no others: it is empty when every
\* article the call got classifies into another section, whatever the bucket
\* held before, and those articles are in the buckets of their sections.
C24_EmptyOwnBucket ==
    \A i \in Cycles :
        LatestAlone(i) =>
            \A k \in DOMAIN cyc[i].got :
                ObjHas(cyc[i].allCollectedResults, k) =>
                    /\ k \in DOMAIN newsData
                    /\ Range(newsData[k]) = OfSection(cyc[i], k)
                    /\ OfSection(cyc[i], k) = {} => newsData[k] = <<>>
                    /\ \A a \in Range(cyc[i].got[k].articles) :
                          /\ SectionOf(a) \in DOMAIN newsData
                          /\ a \in Range(newsData[SectionOf(a)])

\* the world bucket held w1 after the first refresh; the world fetch of the
\* second returned b1 and u1 only, and the world bucket is empty
C24_Witness ==
    /\ Len(cyc) = 2
    /\ cyc[1].path = "complete"
    /\ cyc[1].endData["world"] = <<aW1>>
    /\ LatestAlone(2)
    /\ DOMAIN cyc[2].got = {"world"}
    /\ cyc[2].got["world"].articles = <<aB1, aU1>>
    /\ cyc[2].waves >= 1
    /\ newsData["world"] = <<>>
    /\ newsData["business"] = <<aB1>>
    /\ newsData["uncategorized"] = <<aU1>>

\* C25: while a call of refreshNews has started and not finished, the
\* published loading flag is true, also when two calls overlap and one of
\* them finishes first.
C25_LoadingWhileInFlight ==
    (\E i \in Cycles : cyc[i].pc = "running") => loading = TRUE

\* the shortlist a call published last
LastShortlist(c) == Breaking(AccumulatedList(c))

\* two completed calls with the same argument and configuration whose
\* fetches settled with the same outcomes, whatever the order they settled in
SameRun(i, j) ==
    /\ cyc[i].path = "complete" /\ cyc[j].path = "complete"
    /\ cyc[i].arg = cyc[j].arg
    /\ cyc[i].cfg = cyc[j].cfg
    /\ cyc[i].got = cyc[j].got

\* C26: what a call publishes does not depend on the order in which the
\* concurrent fetches of a batch settle: two runs with the same
\* configuration and the same adapter outputs publish the same buckets and
\* the same shortlist, articles of equal score in the same order.
C26_SettleOrderIndependent ==
    \A i, j \in Cycles :
        SameRun(i, j) =>
            /\ LastWave(cyc[i]) = LastWave(cyc[j])
            /\ LastShortlist(cyc[i]) = LastShortlist(cyc[j])

\* a step in which a call of refreshNews(R), R a list of sections, publishes
\* leaves the bucket of every section outside R as it was
C27_Step ==
    \A i \in 1..Len(cyc') :
        (/\ ~cyc'[i].arg.isNull
         /\ cyc'[i].waves > (IF i \in Cycles THEN cyc[i].waves ELSE 0)) =>
            \A k \in (DOMAIN newsData \cup DOMAIN newsData') \ Range(cyc'[i].arg.list) :
                /\ k \in DOMAIN newsData
                /\ k \in DOMAIN newsData'
                /\ newsData'[k] = newsData[k]

\* C27: a partial refresh(R) changes only the buckets of the sections in R,
\* also when an article fetched under a key of R carries a section outside R.
C27_PartialRefreshFrame == [][C27_Step]_vars

\* C28: when the latest call, a refreshNews(null) during which no other call
\* ran, has completed, every article of every published bucket was returned
\* by an adapter during that call: no bucket keeps articles of an earlier one.
C28_NoStaleArticles ==
    \A i \in Cycles :
        (LatestAlone(i) /\ cyc[i].arg.isNull /\ cyc[i].path = "complete") =>
            \A k \in DOMAIN newsData : Range(newsData[k]) \subseteq Accumulated(cyc[i])

\* C29: snapshot consistency: every article of the published shortlist is in
\* the published bucket of its section, in every state, between the waves of
\* a call and under overlapping calls included.
C29_ShortlistInSections ==
    \A n \in 1..Len(breakingNews) :
        /\ SectionOf(breakingNews[n]) \in DOMAIN newsData
        /\ breakingNews[n] \in Range(newsData[SectionOf(breakingNews[n])])

\* two calls overlapped; the world fetch of the one that published last
\* failed, so the world bucket is empty, and the shortlist holds articles of
\* that call only
C29_Witness ==
    /\ Len(cyc) = 2
    /\ cyc[1].overlapped /\ cyc[2].overlapped
    /\ \E i \in Cycles :
          /\ "world" \in DOMAIN cyc[i].got
          /\ cyc[i].got["world"].kind = "ok"
          /\ aW1 \in Range(cyc[i].got["world"].articles)
    /\ "world" \in DOMAIN newsData
    /\ newsData["world"] = <<>>
    /\ Len(breakingNews) >= 1
    /\ aW1 \notin Range(breakingNews)

\* no fetch of any call is awaiting its result
NoFetchPending == \A i \in Cycles : cyc[i].pending = {}

\* the i-th call of refreshNews has started and has not finished
InFlight(i) == i \in Cycles /\ cyc[i].pc = "running"

\* the i-th call has finished, on one of its three paths
Finished(i) ==
    /\ i \in Cycles
    /\ cyc[i].pc = "done"
    /\ cyc[i].path \in {"complete", "noconfig", "fatal"}

\* at least one call was made and none is in flight
AllFinished == Len(cyc) >= 1 /\ \A i \in Cycles : cyc[i].pc = "done"

\* C30: termination: if every adapter call that was issued settles, every
\* call of refreshNews that started finishes, on the success path, the
\* configuration-unavailable path or the fatal-error path; and once no call
\* is in flight, loading is false.
C30_Termination ==
    ([]<>NoFetchPending) =>
        /\ \A i \in 1..MaxRefreshes : InFlight(i) ~> Finished(i)
        /\ [](AllFinished => loading = FALSE)

\* a call completed after its fetches settled, another ended for lack of a
\* configuration, none is in flight and loading is false
C30_Witness ==
    /\ AllFinished
    /\ loading = FALSE
    /\ \E i \in Cycles : cyc[i].path = "complete" /\ DOMAIN cyc[i].got # {}
    /\ \E i \in Cycles : cyc[i].path = "noconfig"

====
